---------------------------- MODULE Spec2Model ----------------------------
(***************************************************************************)
(* Model of the vodafone-downloader run (src/main.go, version 1.7.0,       *)
(* lines 373-788): main, login, downloadInvoice, navigateToInvoicePage,    *)
(* capturePDF, the two text parsers and the mail hand-over.                *)
(*                                                                         *)
(* Strings whose contents the program inspects (page text, data URLs,      *)
(* period fields, filenames) are sequences of one-character strings, so    *)
(* that the regular expressions, strings.Index, strings.TrimPrefix,        *)
(* fmt.Sprintf and base64 are computed, not assumed.                       *)
(***************************************************************************)
EXTENDS Integers, Sequences, FiniteSets, TLC

(***************************************************************************)
(* Character classes of Go's regexp (RE2) syntax.                          *)
(***************************************************************************)
Digits == {"0", "1", "2", "3", "4", "5", "6", "7", "8", "9"}

\* \p{L}: the Latin letters and the German umlauts
Letters ==
  {"A", "B", "C", "D", "E", "F", "G", "H", "I", "J", "K", "L", "M",
   "N", "O", "P", "Q", "R", "S", "T", "U", "V", "W", "X", "Y", "Z",
   "a", "b", "c", "d", "e", "f", "g", "h", "i", "j", "k", "l", "m",
   "n", "o", "p", "q", "r", "s", "t", "u", "v", "w", "x", "y", "z",
   "ä", "ö", "ü", "Ä", "Ö", "Ü", "ß"}

\* \s of RE2: [\t\n\f\r ]
Space == {" ", "\n", "\t"}

\* [:\s]
ColonSpace == Space \cup {":"}

----------------------------------------------------------------------------
(***************************************************************************)
(* String helpers (strings.HasPrefix, strings.Index, slicing).             *)
(***************************************************************************)
\* s[i:] of Go with a 1-based i
From(s, i) == SubSeq(s, i, Len(s))

\* strings.HasPrefix(s[i:], p), 1-based i
HasPrefixAt(s, i, p) ==
  /\ i >= 1
  /\ i + Len(p) - 1 <= Len(s)
  /\ \A k \in 1..Len(p) : s[i + k - 1] = p[k]

\* strings.Index(s, p) as a 1-based position, 0 when p does not occur
Index(s, p) ==
  LET hits == {i \in 1..Len(s) : HasPrefixAt(s, i, p)}
  IN  IF hits = {} THEN 0
      ELSE CHOOSE i \in hits : \A j \in hits : i <= j

\* strings.Contains / String.prototype.includes
Contains(s, p) == Index(s, p) # 0

\* end (exclusive) of the maximal run of characters of class C starting at i
RunEnd(s, i, C) ==
  CHOOSE j \in i..(Len(s) + 1) :
    /\ \A k \in i..(j - 1) : s[k] \in C
    /\ (j = Len(s) + 1 \/ s[j] \notin C)

\* exactly n characters of class C at i..i+n-1
ClassAt(s, i, n, C) ==
  /\ i >= 1
  /\ i + n - 1 <= Len(s)
  /\ \A k \in i..(i + n - 1) : s[k] \in C

----------------------------------------------------------------------------
(***************************************************************************)
(* The month tables.                                                       *)
(***************************************************************************)
Januar    == <<"J", "a", "n", "u", "a", "r">>
Februar   == <<"F", "e", "b", "r", "u", "a", "r">>
Maerz     == <<"M", "ä", "r", "z">>
April     == <<"A", "p", "r", "i", "l">>
Mai       == <<"M", "a", "i">>
Juni      == <<"J", "u", "n", "i">>
Juli      == <<"J", "u", "l", "i">>
August    == <<"A", "u", "g", "u", "s", "t">>
September == <<"S", "e", "p", "t", "e", "m", "b", "e", "r">>
Oktober   == <<"O", "k", "t", "o", "b", "e", "r">>
November  == <<"N", "o", "v", "e", "m", "b", "e", "r">>
Dezember  == <<"D", "e", "z", "e", "m", "b", "e", "r">>

\* variant of monthNames (a deliberately wrong reading, used to test the properties): Juli is listed before Juni
monthNamesJuliJuni ==
  <<Januar, Februar, Maerz, April, Mai, Juli,
    Juni, August, September, Oktober, November, Dezember>>

\* var monthNames: index 0 is "", here the indices 1..12
monthNames ==
  <<Januar, Februar, Maerz, April, Mai, Juni,
    Juli, August, September, Oktober, November, Dezember>>

\* the twelve names
RangeOfNames == {monthNames[k] : k \in 1..Len(monthNames)}

\* variant of months (a deliberately wrong reading, used to test the properties): the numerals of Juni and Juli are exchanged
monthsJuniJuli ==
  { <<Januar, <<"0", "1">> >>,    <<Februar, <<"0", "2">> >>,
    <<Maerz, <<"0", "3">> >>,     <<April, <<"0", "4">> >>,
    <<Mai, <<"0", "5">> >>,       <<Juni, <<"0", "7">> >>,
    <<Juli, <<"0", "6">> >>,      <<August, <<"0", "8">> >>,
    <<September, <<"0", "9">> >>, <<Oktober, <<"1", "0">> >>,
    <<November, <<"1", "1">> >>,  <<Dezember, <<"1", "2">> >> }

\* var months: name -> two-digit numeral, as the set of its (key, value) pairs
months ==
  { <<Januar, <<"0", "1">> >>,    <<Februar, <<"0", "2">> >>,
    <<Maerz, <<"0", "3">> >>,     <<April, <<"0", "4">> >>,
    <<Mai, <<"0", "5">> >>,       <<Juni, <<"0", "6">> >>,
    <<Juli, <<"0", "7">> >>,      <<August, <<"0", "8">> >>,
    <<September, <<"0", "9">> >>, <<Oktober, <<"1", "0">> >>,
    <<November, <<"1", "1">> >>,  <<Dezember, <<"1", "2">> >> }

\* the "ok" of  month, ok := months[name]
monthsOk(name) == \E e \in months : e[1] = name

\* the value of  month, ok := months[name]  when ok
monthsGet(name) == (CHOOSE e \in months : e[1] = name)[2]

----------------------------------------------------------------------------
(***************************************************************************)
(* InvoiceInfo and the nil pointer.                                        *)
(***************************************************************************)
\* a nil *InvoiceInfo; every non-nil one has ok = TRUE
NilInfo ==
  [ok |-> FALSE, Filename |-> <<>>, Month |-> <<>>, Year |-> <<>>,
   MonthName |-> <<>>, Type |-> <<>>, PDFData |-> <<>>]

\* variant of InvoiceInfo (a deliberately wrong reading, used to test the properties): the numeral and the name are stored in each other's field
InvoiceInfoSwapped(month, year, monthName) ==
  [ok |-> TRUE, Filename |-> <<>>, Month |-> monthName, Year |-> year,
   MonthName |-> month, Type |-> <<>>, PDFData |-> <<>>]

\* &InvoiceInfo{Month: month, Year: year, MonthName: monthName}
InvoiceInfo(month, year, monthName) ==
  [ok |-> TRUE, Filename |-> <<>>, Month |-> month, Year |-> year,
   MonthName |-> monthName, Type |-> <<>>, PDFData |-> <<>>]

\* result of FindStringSubmatch: matched, and the two capture groups
NoMatch == [matched |-> FALSE, g1 |-> <<>>, g2 |-> <<>>]
Match(g1, g2) == [matched |-> TRUE, g1 |-> g1, g2 |-> g2]

----------------------------------------------------------------------------
(***************************************************************************)
(* parseInvoiceInfo (src/main.go:726-740).                                 *)
(***************************************************************************)
Rechnung       == <<"R", "e", "c", "h", "n", "u", "n", "g">>
Rechnungsdatum == Rechnung \o <<"s", "d", "a", "t", "u", "m">>

\* `Rechnung (\p{L}+) (\d{4})` anchored at position i.  Every repetition is
\* followed by a character outside its class, so only the maximal run matches.
Pattern1At(s, i) ==
  LET a == i + Len(Rechnung) + 1
      b == RunEnd(s, a, Letters)
  IN  IF /\ HasPrefixAt(s, i, Rechnung \o <<" ">>)
         /\ b > a
         /\ b <= Len(s)
         /\ s[b] = " "
         /\ ClassAt(s, b + 1, 4, Digits)
      THEN Match(SubSeq(s, a, b - 1), SubSeq(s, b + 1, b + 4))
      ELSE NoMatch

\* `Rechnungsdatum[:\s]+\d+\.\s*(\p{L}+)\s+(\d{4})` anchored at position i
Pattern2At(s, i) ==
  LET a == i + Len(Rechnungsdatum)
      b == RunEnd(s, a, ColonSpace)
      c == RunEnd(s, b, Digits)
      d == RunEnd(s, c + 1, Space)
      e == RunEnd(s, d, Letters)
      f == RunEnd(s, e, Space)
  IN  IF /\ HasPrefixAt(s, i, Rechnungsdatum)
         /\ b > a
         /\ c > b
         /\ c <= Len(s)
         /\ s[c] = "."
         /\ e > d
         /\ f > e
         /\ ClassAt(s, f, 4, Digits)
      THEN Match(SubSeq(s, d, e - 1), SubSeq(s, f, f + 3))
      ELSE NoMatch

\* regexp.FindStringSubmatch: the match at the leftmost position that matches
FindPattern1(s) ==
  LET hits == {i \in 1..Len(s) : Pattern1At(s, i).matched}
  IN  IF hits = {} THEN NoMatch
      ELSE Pattern1At(s, CHOOSE i \in hits : \A j \in hits : i <= j)

FindPattern2(s) ==
  LET hits == {i \in 1..Len(s) : Pattern2At(s, i).matched}
  IN  IF hits = {} THEN NoMatch
      ELSE Pattern2At(s, CHOOSE i \in hits : \A j \in hits : i <= j)

\* variant of parseInvoiceInfo (a deliberately wrong reading, used to test the properties): the table lookup's ok is not tested
parseInvoiceInfoUnchecked(text) ==
  LET m1 == FindPattern1(text)
      m2 == FindPattern2(text)
      num(name) == IF monthsOk(name) THEN monthsGet(name) ELSE <<>>
  IN  IF m1.matched THEN InvoiceInfo(num(m1.g1), m1.g2, m1.g1)
      ELSE IF m2.matched THEN InvoiceInfo(num(m2.g1), m2.g2, m2.g1)
           ELSE NilInfo

\* variant of parseInvoiceInfo (a deliberately wrong reading, used to test the properties): the patterns are tried in the other order
parseInvoiceInfoReversed(text) ==
  LET m1 == FindPattern1(text)
      m2 == FindPattern2(text)
  IN  IF m2.matched /\ monthsOk(m2.g1)
      THEN InvoiceInfo(monthsGet(m2.g1), m2.g2, m2.g1)
      ELSE IF m1.matched /\ monthsOk(m1.g1)
           THEN InvoiceInfo(monthsGet(m1.g1), m1.g2, m1.g1)
           ELSE NilInfo

\* the loop of lines 732-738 over the two patterns, in their order
parseInvoiceInfo(text) ==
  LET m1 == FindPattern1(text)
      m2 == FindPattern2(text)
  IN  IF m1.matched /\ monthsOk(m1.g1)
      THEN InvoiceInfo(monthsGet(m1.g1), m1.g2, m1.g1)
      ELSE IF m2.matched /\ monthsOk(m2.g1)
           THEN InvoiceInfo(monthsGet(m2.g1), m2.g2, m2.g1)
           ELSE NilInfo

----------------------------------------------------------------------------
(***************************************************************************)
(* parseArchiveFirstEntry (src/main.go:701-721).                           *)
(***************************************************************************)
Rechnungsarchiv == Rechnung \o <<"s", "a", "r", "c", "h", "i", "v">>

\* `(Januar|...|Dezember)\s+\d{2}\.\d{2}\.(\d{4})` anchored at position i.
\* No month name is a prefix of another one, so at most one alternative
\* matches at i.
ArchivePatternAt(s, i) ==
  LET ms == {k \in 1..Len(monthNames) : HasPrefixAt(s, i, monthNames[k])}
  IN  IF ms = {} THEN NoMatch
      ELSE LET name == monthNames[CHOOSE k \in ms : TRUE]
               a    == i + Len(name)
               b    == RunEnd(s, a, Space)
           IN  IF /\ b > a
                  /\ ClassAt(s, b, 2, Digits)
                  /\ b + 2 <= Len(s) /\ s[b + 2] = "."
                  /\ ClassAt(s, b + 3, 2, Digits)
                  /\ b + 5 <= Len(s) /\ s[b + 5] = "."
                  /\ ClassAt(s, b + 6, 4, Digits)
               THEN Match(name, SubSeq(s, b + 6, b + 9))
               ELSE NoMatch

\* variant of FindArchivePattern (a deliberately wrong reading, used to test the properties): the last match is taken, not the first
FindArchivePatternLast(s) ==
  LET hits == {k \in 1..Len(s) : ArchivePatternAt(s, k).matched}
  IN  IF hits = {} THEN NoMatch
      ELSE ArchivePatternAt(s, CHOOSE k \in hits : \A j \in hits : k >= j)

\* FindStringSubmatch of line 710: the leftmost match
FindArchivePattern(s) ==
  LET hits == {i \in 1..Len(s) : ArchivePatternAt(s, i).matched}
  IN  IF hits = {} THEN NoMatch
      ELSE ArchivePatternAt(s, CHOOSE i \in hits : \A j \in hits : i <= j)

\* variant of parseArchiveFirstEntry (a deliberately wrong reading, used to test the properties): the whole text is searched, marker or not
parseArchiveFirstEntryWholeText(text) ==
  LET m == FindArchivePattern(text)
  IN  IF ~m.matched THEN NilInfo
      ELSE IF ~monthsOk(m.g1) THEN NilInfo
           ELSE InvoiceInfo(monthsGet(m.g1), m.g2, m.g1)

\* lines 701-721
parseArchiveFirstEntry(text) ==
  LET idx == Index(text, Rechnungsarchiv)
      m   == FindArchivePattern(From(text, idx))
  IN  IF idx = 0 THEN NilInfo
      ELSE IF ~m.matched THEN NilInfo
           ELSE IF ~monthsOk(m.g1) THEN NilInfo
                ELSE InvoiceInfo(monthsGet(m.g1), m.g2, m.g1)

----------------------------------------------------------------------------
(***************************************************************************)
(* fmt.Sprintf of the clock and of the filename (src/main.go:558-568).     *)
(***************************************************************************)
DigitChar(d) == <<"0", "1", "2", "3", "4", "5", "6", "7", "8", "9">>[d + 1]

\* fmt.Sprintf("%d", n) for n >= 0
RECURSIVE FormatInt(_)
FormatInt(n) ==
  IF n < 10 THEN <<DigitChar(n)>>
  ELSE FormatInt(n \div 10) \o <<DigitChar(n % 10)>>

\* fmt.Sprintf("%02d", n) for n >= 0
Format02d(n) == IF n < 10 THEN <<"0">> \o FormatInt(n) ELSE FormatInt(n)

DigitVal(c) == CHOOSE d \in 0..9 : DigitChar(d) = c

\* the number a run of decimal digits denotes
RECURSIVE DecVal(_)
DecVal(s) ==
  IF Len(s) = 0 THEN 0
  ELSE 10 * DecVal(SubSeq(s, 1, Len(s) - 1)) + DigitVal(s[Len(s)])

RechnungVodafone ==
  <<"_">> \o Rechnung \o <<"_", "V", "o", "d", "a", "f", "o", "n", "e", "_">>

\* variant of FormatFilename (a deliberately wrong reading, used to test the properties): the category tag is left out
FormatFilenameNoTag(month, year, tag) ==
  month \o <<"_">> \o year \o <<"_">> \o Rechnung
  \o <<"_", "V", "o", "d", "a", "f", "o", "n", "e", ".", "p", "d", "f">>

\* fmt.Sprintf("%s_%s_Rechnung_Vodafone_%s.pdf", month, year, tag)
FormatFilename(month, year, tag) ==
  month \o <<"_">> \o year \o RechnungVodafone \o tag \o <<".", "p", "d", "f">>

\* var contractTypes: key -> display name
Mobilfunk == <<"M", "o", "b", "i", "l", "f", "u", "n", "k">>
Kabel     == <<"K", "a", "b", "e", "l">>
contractTypes == [mobilfunk |-> Mobilfunk, kabel |-> Kabel]

----------------------------------------------------------------------------
(***************************************************************************)
(* base64 and the data URL (src/main.go:672-674 page side, 695-696 host).  *)
(***************************************************************************)
\* the alphabet of base64.StdEncoding; a byte is an integer 0..255
encodeStd ==
  <<
    "A", "B", "C", "D", "E", "F", "G", "H", "I", "J", "K", "L", "M", "N", "O", "P",
    "Q", "R", "S", "T", "U", "V", "W", "X", "Y", "Z", "a", "b", "c", "d", "e", "f",
    "g", "h", "i", "j", "k", "l", "m", "n", "o", "p", "q", "r", "s", "t", "u", "v",
    "w", "x", "y", "z", "0", "1", "2", "3", "4", "5", "6", "7", "8", "9", "+", "/" >>

B64(v) == encodeStd[v + 1]

IsB64(c) == \E k \in 1..Len(encodeStd) : encodeStd[k] = c

UnB64(c) == (CHOOSE k \in 1..Len(encodeStd) : encodeStd[k] = c) - 1

\* the base64 text FileReader.readAsDataURL produces for the bytes b
RECURSIVE EncodeToString(_)
EncodeToString(b) ==
  IF Len(b) = 0 THEN <<>>
  ELSE IF Len(b) = 1
       THEN <<B64(b[1] \div 4), B64((b[1] % 4) * 16), "=", "=">>
       ELSE IF Len(b) = 2
            THEN <<B64(b[1] \div 4), B64((b[1] % 4) * 16 + b[2] \div 16),
                   B64((b[2] % 16) * 4), "=">>
            ELSE <<B64(b[1] \div 4), B64((b[1] % 4) * 16 + b[2] \div 16),
                   B64((b[2] % 16) * 4 + b[3] \div 64), B64(b[3] % 64)>>
                 \o EncodeToString(SubSeq(b, 4, Len(b)))

\* the result pair of a Go call returning ([]byte, error)
Bytes(b) == [err |-> FALSE, data |-> b]
Failed   == [err |-> TRUE, data |-> <<>>]

\* base64.StdEncoding.DecodeString: quanta of four characters, padding only
\* in the last quantum, any other character a CorruptInputError
RECURSIVE DecodeString(_)
DecodeString(s) ==
  IF Len(s) = 0 THEN Bytes(<<>>)
  ELSE IF Len(s) < 4 \/ ~IsB64(s[1]) \/ ~IsB64(s[2]) THEN Failed
  ELSE LET v1 == UnB64(s[1])
           v2 == UnB64(s[2])
           b1 == v1 * 4 + v2 \div 16
       IN  IF s[3] = "="
           THEN IF s[4] = "=" /\ Len(s) = 4 THEN Bytes(<<b1>>) ELSE Failed
           ELSE IF ~IsB64(s[3]) THEN Failed
           ELSE LET v3 == UnB64(s[3])
                    b2 == (v2 % 16) * 16 + v3 \div 4
                IN  IF s[4] = "="
                    THEN IF Len(s) = 4 THEN Bytes(<<b1, b2>>) ELSE Failed
                    ELSE IF ~IsB64(s[4]) THEN Failed
                    ELSE LET b3   == (v3 % 4) * 64 + UnB64(s[4])
                             rest == DecodeString(SubSeq(s, 5, Len(s)))
                         IN  IF rest.err THEN Failed
                             ELSE Bytes(<<b1, b2, b3>> \o rest.data)

\* "data:application/pdf;base64,"
DataURLPrefix ==
  <<"d", "a", "t", "a", ":", "a", "p", "p", "l", "i", "c", "a", "t", "i", "o", "n", "/", "p", "d", "f", ";", "b", "a", "s", "e", "6", "4", ",">>

\* strings.TrimPrefix(s, prefix)
TrimPrefix(s, prefix) ==
  IF HasPrefixAt(s, 1, prefix) THEN From(s, Len(prefix) + 1) ELSE s

\* reader.result of readAsDataURL for a blob of type application/pdf
ReadAsDataURL(b) == DataURLPrefix \o EncodeToString(b)

----------------------------------------------------------------------------
(***************************************************************************)
(* The rendered texts the portal can show.  A page text is held in the     *)
(* state by its index into PageTexts; the parsers work on the characters.  *)
(***************************************************************************)
\* the landing page, before the invoice view has rendered
TxtLanding ==
  <<"M", "e", "i", "n", "e", " ", "S", "e", "r", "v", "i", "c", "e", "s">>

\* a current invoice heading and no archive section
TxtCurrent ==
  <<"A", "k", "t", "u", "e", "l", "l", "e", " ", "R", "e", "c", "h", "n",
    "u", "n", "g", " ", "F", "e", "b", "r", "u", "a", "r", " ", "2", "0",
    "2", "6">>

\* a current invoice heading and an archive section
TxtCurrentArchive ==
  <<"A", "k", "t", "u", "e", "l", "l", "e", " ", "R", "e", "c", "h", "n",
    "u", "n", "g", " ", "F", "e", "b", "r", "u", "a", "r", " ", "2", "0",
    "2", "6", "\n", "R", "e", "c", "h", "n", "u", "n", "g", "s", "a",
    "r", "c", "h", "i", "v", "\n", "J", "a", "n", "u", "a", "r", "\n",
    "0", "4", ".", "0", "1", ".", "2", "0", "2", "6">>

\* no invoice heading, an archive section
TxtArchiveOnly ==
  <<"D", "e", "i", "n", "e", " ", "R", "e", "c", "h", "n", "u", "n", "g",
    "e", "n", "\n", "R", "e", "c", "h", "n", "u", "n", "g", "s", "a",
    "r", "c", "h", "i", "v", "\n", "J", "a", "n", "u", "a", "r", "\n",
    "0", "4", ".", "0", "1", ".", "2", "0", "2", "6">>

\* an invoice heading of another year, an archive section
TxtOtherYear ==
  <<"A", "k", "t", "u", "e", "l", "l", "e", " ", "R", "e", "c", "h", "n",
    "u", "n", "g", " ", "F", "e", "b", "r", "u", "a", "r", " ", "2", "0",
    "2", "5", "\n", "R", "e", "c", "h", "n", "u", "n", "g", "s", "a",
    "r", "c", "h", "i", "v", "\n", "J", "a", "n", "u", "a", "r", "\n",
    "0", "4", ".", "0", "1", ".", "2", "0", "2", "5">>

\* neither an invoice heading nor the archive marker
TxtNone ==
  <<"D", "e", "i", "n", "e", " ", "R", "e", "c", "h", "n", "u", "n", "g",
    "e", "n">>

PageTexts ==
  <<TxtLanding, TxtCurrent, TxtCurrentArchive, TxtArchiveOnly, TxtOtherYear, TxtNone>>

\* the text before anything was read: the zero value of a Go string
NoText == 0

TextOf(id) == IF id = NoText THEN <<>> ELSE PageTexts[id]

\* the page of a fresh navigation, and the texts an invoice view can render
LandingText == 1

InvoiceTexts == 2..Len(PageTexts)

----------------------------------------------------------------------------
(***************************************************************************)
(* Bounds of the model.                                                    *)
(***************************************************************************)
\* a PDF blob holds at most this many bytes (a prefix of "%PDF")
MaxBlobLen == 1

\* one click makes the portal create at most this many blobs
MaxBlobs == 1

\* the iterations of the readiness poll (src/main.go:648)
PollLimit == 15

PDFMagic == <<37, 80, 68, 70>>

PDFType == "application/pdf"

\* the clock values time.Now() can return during a run: [month, year]
Clocks == {[month |-> 1, year |-> 2026], [month |-> 2, year |-> 2026]}

LastClock == [month |-> 2, year |-> 2026]

\* the two scripts handed to capturePDF (src/main.go:596-614)
clickCurrentInvoice    == "clickCurrentInvoice"
clickFirstArchiveEntry == "clickFirstArchiveEntry"
NoClick                == "none"

\* the blobs a click of trigger t can make the portal create
BlobsOf(t) ==
  {[type |-> PDFType, bytes |-> SubSeq(PDFMagic, 1, n), by |-> t] :
     n \in 0..MaxBlobLen}
  \cup {[type |-> "text/html", bytes |-> <<60>>, by |-> t]}

\* sequences of at most n elements of S
RECURSIVE SeqsUpTo(_, _)
SeqsUpTo(S, n) ==
  IF n = 0 THEN {<<>>}
  ELSE LET shorter == SeqsUpTo(S, n - 1)
       IN  shorter \cup {Append(q, x) : q \in shorter, x \in S}

----------------------------------------------------------------------------
(***************************************************************************)
(* State.                                                                  *)
(***************************************************************************)
VARIABLES
  pc,           \* position of the main goroutine
  clock,        \* the wall clock: [month, year]
  expired,      \* the 5-minute deadline of the browser context has passed
  session,      \* the browser: "none", "open", "closed" (cancel has run)
  remaining,    \* keys of contractTypes the range loop has not yet produced
  cur,          \* contractType of the running downloadInvoice, or "none"
  results,      \* var results []InvoiceInfo of main
  pageText,     \* downloadInvoice: var pageText (index into PageTexts)
  now,          \* downloadInvoice: now := time.Now()
  info,         \* downloadInvoice: info
  archiveInfo,  \* downloadInvoice: archiveInfo
  clickJS,      \* capturePDF: the clickJS parameter of the running call
  i,            \* navigateToInvoicePage: the poll counter
  body,         \* page: document.body text (index into PageTexts)
  target,       \* page: text the invoice view is about to render, or NoText
  win,          \* page: window._capturedPDFs, _origCreateObjectURL, URL.createObjectURL
  toCreate,     \* page: blobs the portal is about to hand to URL.createObjectURL
  reading,      \* page: blobs whose FileReader has not fired onload yet
  clicked,      \* page: the click scripts that ran in this document
  log,          \* the lines written with log.Printf / log.Println / log.Fatalf
  ops,          \* the calls made on the browser and on the mail collaborator
  cfg,          \* var cfg Config, as loadConfig filled it
  m             \* sendEmail: the message buildMessage returned, or NoMessage

vars ==
  <<pc, clock, expired, session, remaining, cur, results, pageText, now, info,
    archiveInfo, clickJS, i, body, target, win, toCreate, reading, clicked,
    log, ops, cfg, m>>

locals == <<pageText, now, info, archiveInfo, clickJS, i>>

pageVars == <<body, target, win, toCreate, reading, clicked>>

\* a freshly loaded document: no globals of ours, the native primitive
FreshWindow ==
  [capturedPDFs |-> <<>>, hasQueue |-> FALSE,
   origCreateObjectURL |-> "undefined", createObjectURL |-> "native"]

Line(msg, cat) == [msg |-> msg, cat |-> cat]

Op(op, cat, arg) == [op |-> op, cat |-> cat, arg |-> arg]

NoClock == [month |-> 0, year |-> 0]

\* the fields of Config that sendEmail and buildMessage read
Config(port, subject) ==
  [SMTP  |-> [Host |-> "smtp.host", Port |-> port],
   Email |-> [From |-> "from", To |-> "to", Subject |-> subject]]

\* a configuration with a numeric port and no subject of its own
DefaultCfg == Config(<<"4", "6", "5">>, <<>>)

\* no message has been built
NoMessage == [built |-> FALSE]

Init ==
  /\ pc = "loadConfig"
  /\ clock \in Clocks
  /\ expired = FALSE
  /\ session = "none"
  /\ remaining = {}
  /\ cur = "none"
  /\ results = <<>>
  /\ pageText = NoText
  /\ now = NoClock
  /\ info = NilInfo
  /\ archiveInfo = NilInfo
  /\ clickJS = NoClick
  /\ i = 0
  /\ body = NoText
  /\ target = NoText
  /\ win = FreshWindow
  /\ toCreate = <<>>
  /\ reading = <<>>
  /\ clicked = {}
  /\ log = <<>>
  /\ ops = <<>>
  /\ cfg = DefaultCfg
  /\ m = NoMessage

----------------------------------------------------------------------------
(***************************************************************************)
(* main before the loop (src/main.go:444-460).                             *)
(***************************************************************************)
\* loadConfig fails: log.Fatalf exits the process
LoadConfigFails ==
  /\ pc = "loadConfig"
  /\ pc' = "exit1"
  /\ log' = Append(log, Line("Config error", "none"))
  /\ UNCHANGED <<clock, expired, session, remaining, cur, results, locals,
                 pageVars, ops>>
  /\ UNCHANGED <<cfg, m>>

\* loadConfig succeeds; createBrowserContext; "Logging in..."
CreateBrowserContext ==
  /\ pc = "loadConfig"
  /\ pc' = "login"
  /\ session' = "open"
  /\ log' = Append(log, Line("Logging in...", "none"))
  /\ ops' = Append(ops, Op("createBrowserContext", "none", NoClick))
  /\ UNCHANGED <<clock, expired, remaining, cur, results, locals, pageVars>>
  /\ UNCHANGED <<cfg, m>>

\* variant of LoginFails (a deliberately wrong reading, used to test the properties): the failure is logged with log.Printf and main goes on
LoginFailsAndGoesOn ==
  /\ pc = "login"
  /\ pc' = "range"
  /\ remaining' = DOMAIN contractTypes
  /\ log' = Append(log, Line("Login failed", "none"))
  /\ ops' = Append(ops, Op("login", "none", NoClick))
  /\ UNCHANGED <<clock, expired, session, cur, results, locals, pageVars>>
  /\ UNCHANGED <<cfg, m>>

\* login returns an error (context.DeadlineExceeded once the deadline has
\* passed) and log.Fatalf prints it; log.Fatalf calls os.Exit(1), which runs
\* no deferred function
LoginFails ==
  /\ pc = "login"
  /\ pc' = "exit1"
  /\ log' = Append(log, Line(IF expired
                             THEN "Login failed: context deadline exceeded"
                             ELSE "Login failed", "none"))
  /\ ops' = Append(ops, Op("login", "none", NoClick))
  /\ UNCHANGED <<clock, expired, session, remaining, cur, results, locals,
                 pageVars>>
  /\ UNCHANGED <<cfg, m>>

\* login returns nil; "Looking for invoices"; the range loop starts
LoginSucceeds ==
  /\ pc = "login"
  /\ ~expired
  /\ pc' = "range"
  /\ remaining' = DOMAIN contractTypes
  /\ log' = Append(log, Line("Looking for invoices", "none"))
  /\ ops' = Append(ops, Op("login", "none", NoClick))
  /\ UNCHANGED <<clock, expired, session, cur, results, locals, pageVars>>
  /\ UNCHANGED <<cfg, m>>

----------------------------------------------------------------------------
(***************************************************************************)
(* The range loop of main and downloadInvoice (src/main.go:462-593).       *)
(***************************************************************************)
\* downloadInvoice returns: back in the loop, the locals are gone
Return(inv) ==
  /\ pc' = "range"
  /\ cur' = "none"
  /\ results' = IF inv.ok THEN Append(results, inv) ELSE results
  /\ pageText' = NoText
  /\ now' = NoClock
  /\ info' = NilInfo
  /\ archiveInfo' = NilInfo
  /\ clickJS' = NoClick
  /\ i' = 0

\* the next key of the map, in the order Go's map iteration happens to take
\* (lines 464-466); downloadInvoice is called and the first step of
\* navigateToInvoicePage, Navigate + Sleep of lines 619-624, loads a new document
RangeNext ==
  /\ pc = "range"
  /\ ~expired
  /\ \E contractType \in remaining :
       /\ remaining' = remaining \ {contractType}
       /\ cur' = contractType
       /\ log' = Append(log, Line("Searching", contractType))
       /\ ops' = Append(ops, Op("downloadInvoice", contractType, NoClick))
  /\ pc' = "nav2"
  /\ body' = LandingText
  /\ target' = NoText
  /\ win' = FreshWindow
  /\ toCreate' = <<>>
  /\ reading' = <<>>
  /\ clicked' = {}
  /\ UNCHANGED <<clock, expired, session, results, locals>>
  /\ UNCHANGED <<cfg, m>>

\* the same, but Navigate + Sleep fail (always once the deadline has
\* passed): downloadInvoice returns nil at line 551
RangeNextNavFails ==
  /\ pc = "range"
  /\ \E contractType \in remaining :
       /\ remaining' = remaining \ {contractType}
       /\ log' = Append(log, Line("Searching", contractType))
       /\ ops' = Append(ops, Op("downloadInvoice", contractType, NoClick))
  /\ UNCHANGED <<pc, clock, expired, session, cur, results, locals, pageVars>>
  /\ UNCHANGED <<cfg, m>>

\* lines 626-635: click the contract card, the error is dropped
Nav2 ==
  /\ pc = "nav2"
  /\ pc' = "nav3"
  /\ UNCHANGED <<clock, expired, session, remaining, cur, results, locals,
                 pageVars, log, ops>>
  /\ UNCHANGED <<cfg, m>>

\* variant of Nav3Fails (a deliberately wrong reading, used to test the properties): the navigation error is treated as fatal
Nav3FailsFatally ==
  /\ pc = "nav3"
  /\ pc' = "exit1"
  /\ UNCHANGED <<clock, expired, session, remaining, cur, results, locals,
                 pageVars, log, ops>>
  /\ UNCHANGED <<cfg, m>>

\* lines 637-645: the click on "Rechnungen" fails
Nav3Fails ==
  /\ pc = "nav3"
  /\ Return(NilInfo)
  /\ UNCHANGED <<clock, expired, session, remaining, pageVars, log, ops>>
  /\ UNCHANGED <<cfg, m>>

\* lines 637-645 succeed: the portal starts to load some invoice view
Nav3 ==
  /\ pc = "nav3"
  /\ ~expired
  /\ pc' = "poll"
  /\ target' \in InvoiceTexts
  /\ i' = 0
  /\ UNCHANGED <<clock, expired, session, remaining, cur, results, pageText,
                 now, info, archiveInfo, clickJS, body, win, toCreate, reading,
                 clicked, log, ops>>
  /\ UNCHANGED <<cfg, m>>

AktuelleRechnung == <<"A", "k", "t", "u", "e", "l", "l", "e", " ">> \o Rechnung

DeineRechnungen == <<"D", "e", "i", "n", "e", " ">> \o Rechnung \o <<"e", "n">>

\* the value the script of lines 651-654 leaves in hasContent; a failed
\* Evaluate leaves the zero value
hasContent ==
  /\ ~expired
  /\ \/ Contains(TextOf(body), AktuelleRechnung)
     \/ Contains(TextOf(body), DeineRechnungen)

\* variant of Poll (a deliberately wrong reading, used to test the properties): a poll that never saw the content returns an error
PollFailsClosed ==
  /\ pc = "poll"
  /\ IF hasContent
     THEN /\ pc' = "readText" /\ i' = 0
          /\ UNCHANGED <<cur, results, pageText, now, info, archiveInfo, clickJS>>
     ELSE IF i + 1 >= PollLimit
          THEN Return(NilInfo)
          ELSE /\ pc' = "poll" /\ i' = i + 1
               /\ UNCHANGED <<cur, results, pageText, now, info, archiveInfo, clickJS>>
  /\ UNCHANGED <<clock, expired, session, remaining, pageVars, log, ops, cfg, m>>

\* one iteration of the poll, lines 648-659
Poll ==
  /\ pc = "poll"
  /\ IF hasContent \/ i + 1 >= PollLimit
     THEN pc' = "readText" /\ i' = 0
     ELSE pc' = "poll" /\ i' = i + 1
  /\ UNCHANGED <<clock, expired, session, remaining, cur, results, pageText,
                 now, info, archiveInfo, clickJS, pageVars, log, ops>>
  /\ UNCHANGED <<cfg, m>>

\* line 555: chromedp.Text, the error is dropped
ReadText ==
  /\ pc = "readText"
  /\ pc' = "parse"
  /\ pageText' = IF expired THEN NoText ELSE body
  /\ UNCHANGED <<clock, expired, session, remaining, cur, results, now, info,
                 archiveInfo, clickJS, i, pageVars, log, ops>>
  /\ UNCHANGED <<cfg, m>>

\* variant of IsCurrent (a deliberately wrong reading, used to test the properties): the year is not compared
IsCurrentMonthOnly(inf, t) ==
  /\ inf.ok
  /\ inf.Month = Format02d(t.month)

\* variant of IsCurrent (a deliberately wrong reading, used to test the properties): any period the extractor finds counts as current
IsCurrentAnyPeriod(inf, t) == inf.ok

\* line 563: info != nil && info.Month == currentMonth && info.Year == currentYear
IsCurrent(inf, t) ==
  /\ inf.ok
  /\ inf.Month = Format02d(t.month)
  /\ inf.Year = FormatInt(t.year)

\* lines 557-564: the clock, the extractor, the choice of the primary path
Parse ==
  /\ pc = "parse"
  /\ now' = clock
  /\ info' = parseInvoiceInfo(TextOf(pageText))
  /\ IF IsCurrent(info', now')
     THEN /\ log' = Append(log, Line("Downloading", cur))
          /\ ops' = Append(ops, Op("capturePDF", cur, clickCurrentInvoice))
          /\ clickJS' = clickCurrentInvoice
          /\ pc' = "install"
     ELSE /\ pc' = "archive"
          /\ UNCHANGED <<log, ops, clickJS>>
  /\ UNCHANGED <<clock, expired, session, remaining, cur, results, pageText,
                 archiveInfo, i, pageVars>>
  /\ UNCHANGED <<cfg, m>>

\* variant of ArchiveInput (a deliberately wrong reading, used to test the properties): the page text is read again for the fallback
ArchiveInputLive == body

\* the text handed to parseArchiveFirstEntry at line 576
ArchiveInput == pageText

\* lines 575-583: the archive resolver, the choice of the fallback capture
Archive ==
  /\ pc = "archive"
  /\ LET a == parseArchiveFirstEntry(TextOf(ArchiveInput))
     IN  IF a.ok
         THEN /\ archiveInfo' = a
              /\ log' = Append(log, Line("Downloading from archive", cur))
              /\ ops' = Append(ops, Op("capturePDF", cur, clickFirstArchiveEntry))
              /\ clickJS' = clickFirstArchiveEntry
              /\ pc' = "install"
              /\ UNCHANGED <<cur, results, pageText, now, info, i>>
         ELSE /\ log' = Append(log, Line("no archive entry found", cur))
              /\ Return(NilInfo)
              /\ UNCHANGED ops
  /\ UNCHANGED <<clock, expired, session, remaining, pageVars>>
  /\ UNCHANGED <<cfg, m>>

----------------------------------------------------------------------------
(***************************************************************************)
(* capturePDF (src/main.go:665-697) and the return into downloadInvoice.   *)
(***************************************************************************)
\* variant of SavedOriginal (a deliberately wrong reading, used to test the properties): the guard of line 669 is missing
SavedOriginalUnguarded(w) == w.createObjectURL

\* line 669: if (!window._origCreateObjectURL) ... = URL.createObjectURL
SavedOriginal(w) ==
  IF w.origCreateObjectURL = "undefined"
  THEN w.createObjectURL
  ELSE w.origCreateObjectURL

\* lines 667-678: the install script; a failed Evaluate runs nothing
Install ==
  /\ pc = "install"
  /\ pc' = "trigger"
  /\ win' = IF expired THEN win
            ELSE [capturedPDFs |-> <<>>, hasQueue |-> TRUE,
                  origCreateObjectURL |-> SavedOriginal(win),
                  createObjectURL |-> "wrapper"]
  /\ UNCHANGED <<clock, expired, session, remaining, cur, results, locals,
                 body, target, toCreate, reading, clicked, log, ops>>
  /\ UNCHANGED <<cfg, m>>

\* line 676: the function the installed wrapper calls through to,
\* window._origCreateObjectURL looked up when the wrapper runs; the native
\* primitive calls nothing further
CallThrough(w) ==
  IF w.createObjectURL = "wrapper" THEN w.origCreateObjectURL ELSE "none"

\* line 681: the click script; the portal answers with the blobs it will
\* create (none when the control is missing or the download is unavailable)
Trigger ==
  /\ pc = "trigger"
  /\ pc' = "settle"
  /\ IF expired
     THEN UNCHANGED <<toCreate, clicked>>
     ELSE /\ \E blobs \in SeqsUpTo(BlobsOf(clickJS), MaxBlobs) :
               toCreate' = toCreate \o blobs
          /\ clicked' = clicked \cup {clickJS}
  /\ UNCHANGED <<clock, expired, session, remaining, cur, results, locals,
                 body, target, win, reading, log, ops>>
  /\ UNCHANGED <<cfg, m>>

\* line 684: time.Sleep(5 * time.Second)
Settle ==
  /\ pc = "settle"
  /\ pc' = "harvest"
  /\ UNCHANGED <<clock, expired, session, remaining, cur, results, locals,
                 pageVars, log, ops>>
  /\ UNCHANGED <<cfg, m>>

\* line 688: window._capturedPDFs || [] read into captured; a failed Evaluate
\* leaves captured nil
Captured ==
  IF expired \/ ~win.hasQueue THEN <<>> ELSE win.capturedPDFs

\* lines 690-696: the result of capturePDF for the harvested queue
Harvested(captured) ==
  IF Len(captured) = 0 THEN Failed
  ELSE DecodeString(TrimPrefix(captured[1].url, DataURLPrefix))

\* variant of Document (a deliberately wrong reading, used to test the properties): the period record is returned as the parser made it
DocumentPeriodOnly(inf, typeName, pdfData) == inf

\* lines 567-570 and 589-592: the Document returned for a capture
Document(inf, typeName, pdfData) ==
  [inf EXCEPT !.Type = typeName,
              !.Filename = FormatFilename(inf.Month, inf.Year, typeName),
              !.PDFData = pdfData]

\* variant of Harvest (a deliberately wrong reading, used to test the properties): the archive path fills and returns info, not archiveInfo
HarvestFillsInfo ==
  /\ pc = "harvest"
  /\ LET r == Harvested(Captured)
     IN  IF clickJS = clickCurrentInvoice
         THEN IF ~r.err
              THEN /\ Return(Document(info, contractTypes[cur], r.data))
                   /\ UNCHANGED log
              ELSE /\ log' = Append(log, Line("current invoice download failed, trying archive...", cur))
                   /\ pc' = "archive"
                   /\ clickJS' = NoClick
                   /\ UNCHANGED <<cur, results, pageText, now, info,
                                  archiveInfo, i>>
         ELSE IF r.err
              THEN /\ log' = Append(log, Line("archive download failed!", cur))
                   /\ Return(NilInfo)
              ELSE /\ Return(Document(info, contractTypes[cur], r.data))
                   /\ UNCHANGED log
  /\ UNCHANGED <<clock, expired, session, remaining, pageVars, ops>>
  /\ UNCHANGED <<cfg, m>>

\* lines 686-697, and the caller's lines 566-573 or 584-592
Harvest ==
  /\ pc = "harvest"
  /\ LET r == Harvested(Captured)
     IN  IF clickJS = clickCurrentInvoice
         THEN IF ~r.err
              THEN /\ Return(Document(info, contractTypes[cur], r.data))
                   /\ UNCHANGED log
              ELSE /\ log' = Append(log, Line("current invoice download failed, trying archive...", cur))
                   /\ pc' = "archive"
                   /\ clickJS' = NoClick
                   /\ UNCHANGED <<cur, results, pageText, now, info,
                                  archiveInfo, i>>
         ELSE IF r.err
              THEN /\ log' = Append(log, Line("archive download failed!", cur))
                   /\ Return(NilInfo)
              ELSE /\ Return(Document(archiveInfo, contractTypes[cur], r.data))
                   /\ UNCHANGED log
  /\ UNCHANGED <<clock, expired, session, remaining, pageVars, ops>>
  /\ UNCHANGED <<cfg, m>>

----------------------------------------------------------------------------
(***************************************************************************)
(* The end of main (src/main.go:471-482, the deferred cancel of line 451). *)
(***************************************************************************)
\* variant of HaveResults (a deliberately wrong reading, used to test the properties): the length test is off by one
HaveResultsAlways(rs) == Len(rs) >= 0

\* line 472: len(results) > 0
HaveResults(rs) == Len(rs) > 0

\* variant of Atoi (a deliberately wrong reading, used to test the properties): the leading digits are taken and the rest is dropped, an empty run counts as 0
AtoiLeadingDigits(s) ==
  [err |-> FALSE, n |-> DecVal(SubSeq(s, 1, RunEnd(s, 1, Digits) - 1))]

\* strconv.Atoi for values that fit an int: an optional sign, then one or
\* more decimal digits and nothing else
Atoi(s) ==
  LET signed == Len(s) > 0 /\ s[1] \in {"+", "-"}
      digits == IF signed THEN Tail(s) ELSE s
  IN  IF Len(digits) = 0 \/ \E k \in DOMAIN digits : digits[k] \notin Digits
      THEN [err |-> TRUE, n |-> 0]
      ELSE [err |-> FALSE,
            n |-> IF signed /\ s[1] = "-" THEN 0 - DecVal(digits) ELSE DecVal(digits)]

\* "Deine PDF-Rechnungen von Vodafone"
DefaultSubject ==
  <<"D", "e", "i", "n", "e", " ", "P", "D", "F", "-">> \o Rechnung
  \o <<"e", "n", " ", "v", "o", "n", " ", "V", "o", "d", "a", "f", "o", "n", "e">>

\* "Dokumente anbei.\n"
DokumenteAnbei ==
  <<"D", "o", "k", "u", "m", "e", "n", "t", "e", " ", "a", "n", "b", "e", "i",
    ".", "\n">>

\* lines 756-758: one line of the body per invoice
RECURSIVE BodyLines(_)
BodyLines(invoices) ==
  IF Len(invoices) = 0 THEN <<>>
  ELSE LET inv == Head(invoices)
       IN  <<"-", " ">> \o inv.Type \o <<":", " ">> \o inv.MonthName
           \o <<" ">> \o inv.Year \o <<"\n">> \o BodyLines(Tail(invoices))

\* variant of Attachments (a deliberately wrong reading, used to test the properties): the length test of line 763 is missing
AttachmentsAll(invoices) ==
  [k \in DOMAIN invoices |->
     [name |-> invoices[k].Filename, data |-> invoices[k].PDFData]]

\* lines 762-771: m.Attach for every invoice with PDF bytes
RECURSIVE Attachments(_)
Attachments(invoices) ==
  IF Len(invoices) = 0 THEN <<>>
  ELSE LET inv == Head(invoices)
       IN  (IF Len(inv.PDFData) = 0 THEN <<>>
            ELSE <<[name |-> inv.Filename, data |-> inv.PDFData]>>)
           \o Attachments(Tail(invoices))

\* lines 743-774
buildMessage(invoices) ==
  [built       |-> TRUE,
   From        |-> cfg.Email.From,
   To          |-> cfg.Email.To,
   Subject     |-> IF cfg.Email.Subject = <<>> THEN DefaultSubject
                   ELSE cfg.Email.Subject,
   body        |-> DokumenteAnbei \o BodyLines(invoices),
   attachments |-> Attachments(invoices)]

\* the loop is over: lines 471-481 with sendEmail (lines 778-787) returning
\* the port error, the error of DialAndSend, or nil; then main returns and the
\* deferred cancel() of line 451 shuts the browser down, and its page with it
Send ==
  /\ pc = "range"
  /\ remaining = {}
  /\ pc' = "exit0"
  /\ IF HaveResults(results)
     THEN IF Atoi(cfg.SMTP.Port).err
          THEN /\ log' = log \o <<Line("Sending email...", "none"),
                                  Line("Email failed: invalid SMTP port", "none")>>
               /\ m' = m
               /\ ops' = ops \o <<Op("sendEmail", "none", NoClick),
                                  Op("cancel", "none", NoClick)>>
          ELSE /\ \E err \in BOOLEAN :
                    log' = log \o <<Line("Sending email...", "none"),
                                    Line(IF err THEN "Email failed" ELSE "Done", "none")>>
               /\ m' = buildMessage(results)
               /\ ops' = ops \o <<Op("sendEmail", "none", NoClick),
                                  Op("DialAndSend", "none", NoClick),
                                  Op("cancel", "none", NoClick)>>
     ELSE /\ log' = Append(log, Line("No invoices found", "none"))
          /\ m' = m
          /\ ops' = Append(ops, Op("cancel", "none", NoClick))
  /\ session' = "closed"
  /\ body' = NoText
  /\ target' = NoText
  /\ win' = FreshWindow
  /\ toCreate' = <<>>
  /\ reading' = <<>>
  /\ clicked' = {}
  /\ UNCHANGED cfg
  /\ UNCHANGED <<clock, expired, remaining, cur, results, locals>>

----------------------------------------------------------------------------
(***************************************************************************)
(* The environment: time, the portal and the page's asynchronous work.     *)
(***************************************************************************)
\* the program is between createBrowserContext and the end of the loop
Driving == pc \notin {"loadConfig", "exit0", "exit1"}

\* the deadline of context.WithTimeout(ctx, 5*time.Minute) passes (line 508)
Expire ==
  /\ Driving
  /\ ~expired
  /\ expired' = TRUE
  /\ UNCHANGED <<pc, clock, session, remaining, cur, results, locals,
                 pageVars, log, ops>>
  /\ UNCHANGED <<cfg, m>>

\* the month changes while the program runs
Tick ==
  /\ Driving
  /\ clock # LastClock
  /\ clock' = LastClock
  /\ UNCHANGED <<pc, expired, session, remaining, cur, results, locals,
                 pageVars, log, ops>>
  /\ UNCHANGED <<cfg, m>>

\* the invoice view finishes rendering
Render ==
  /\ cur # "none"
  /\ target # NoText
  /\ body # target
  /\ body' = target
  /\ UNCHANGED <<pc, clock, expired, session, remaining, cur, results, locals,
                 target, win, toCreate, reading, clicked, log, ops>>
  /\ UNCHANGED <<cfg, m>>

\* the portal hands its next blob to URL.createObjectURL; the wrapper of
\* lines 670-677 starts a FileReader for a PDF blob and calls through
CreateBlob ==
  /\ cur # "none"
  /\ toCreate # <<>>
  /\ toCreate' = Tail(toCreate)
  /\ reading' = IF /\ win.createObjectURL = "wrapper"
                   /\ Head(toCreate).type = PDFType
                THEN Append(reading, Head(toCreate))
                ELSE reading
  /\ UNCHANGED <<pc, clock, expired, session, remaining, cur, results, locals,
                 body, target, win, clicked, log, ops>>
  /\ UNCHANGED <<cfg, m>>

\* reader.onload of line 673 for one of the running readers, in any order:
\* the data URL is pushed onto whatever window._capturedPDFs is now
ReaderLoad ==
  /\ cur # "none"
  /\ \E k \in 1..Len(reading) :
       /\ reading' = SubSeq(reading, 1, k - 1) \o SubSeq(reading, k + 1, Len(reading))
       /\ win' = IF win.hasQueue
                 THEN [win EXCEPT !.capturedPDFs =
                         Append(@, [url |-> ReadAsDataURL(reading[k].bytes),
                                    by |-> reading[k].by])]
                 ELSE win
  /\ UNCHANGED <<pc, clock, expired, session, remaining, cur, results, locals,
                 body, target, toCreate, clicked, log, ops>>
  /\ UNCHANGED <<cfg, m>>

----------------------------------------------------------------------------
Next ==
  \/ LoadConfigFails
  \/ CreateBrowserContext
  \/ LoginFails
  \/ LoginSucceeds
  \/ RangeNext
  \/ RangeNextNavFails
  \/ Nav2
  \/ Nav3Fails
  \/ Nav3
  \/ Poll
  \/ ReadText
  \/ Parse
  \/ Archive
  \/ Install
  \/ Trigger
  \/ Settle
  \/ Harvest
  \/ Send
  \/ Expire
  \/ Tick
  \/ Render
  \/ CreateBlob
  \/ ReaderLoad

Spec == Init /\ [][Next]_vars

----------------------------------------------------------------------------
(***************************************************************************)
(* The two parsers on their own.  A document is a sequence of lines of the *)
(* kinds the portal renders: an invoice heading in one of the two          *)
(* phrasings, the archive marker, an archive entry, any other line.  In    *)
(* this specification body holds the document and pageText its text, the   *)
(* characters themselves; parseInvoiceInfo and parseArchiveFirstEntry are  *)
(* applied to it in the order of downloadInvoice.                          *)
(***************************************************************************)
\* a year token has at most this many digits
MaxYearDigits == 5

\* an archive section lists at most this many entries
MaxEntries == 2

\* month tokens that are not keys of the table
January == <<"J", "a", "n", "u", "a", "r", "y">>
februar == <<"f", "e", "b", "r", "u", "a", "r">>

MonthTokens == RangeOfNames \cup {January, februar}

\* the digit run of length n written where the year belongs
YearToken(n) == SubSeq(<<"2", "0", "2", "6", "1", "9", "3">>, 1, n)

Year2025 == <<"2", "0", "2", "5">>

Heading(label, token, year) ==
  [kind |-> "heading", label |-> label, token |-> token, year |-> year]

Entry(token, year) ==
  [kind |-> "entry", label |-> 0, token |-> token, year |-> year]

Marker == [kind |-> "marker", label |-> 0, token |-> <<>>, year |-> <<>>]

OtherLine == [kind |-> "line", label |-> 0, token |-> <<>>, year |-> <<>>]

\* "Rechnungsdatum: 01. "
RechnungsdatumLabel ==
  Rechnungsdatum \o <<":", " ", "0", "1", ".", " ">>

\* "Betrag: 24,98 €"
Betrag ==
  <<"B", "e", "t", "r", "a", "g", ":", " ", "2", "4", ",", "9", "8", " ", "€">>

\* the text of one line
LineText(p) ==
  CASE p.kind = "heading" ->
         (IF p.label = 1 THEN AktuelleRechnung \o <<" ">> ELSE RechnungsdatumLabel)
         \o p.token \o <<" ">> \o p.year
    [] p.kind = "entry" ->
         p.token \o <<"\n", "0", "4", ".", "0", "1", ".">> \o p.year
    [] p.kind = "marker" -> Rechnungsarchiv
    [] OTHER -> Betrag

\* the lines joined with "\n", as chromedp.Text reads the body
RECURSIVE Text(_)
Text(doc) ==
  IF Len(doc) = 0 THEN <<>>
  ELSE IF Len(doc) = 1 THEN LineText(doc[1])
  ELSE LineText(doc[1]) \o <<"\n">> \o Text(Tail(doc))

\* one heading, alone or next to another line
HeadingDocs ==
  LET hs == {Heading(l, t, YearToken(n)) :
               l \in 1..2, t \in MonthTokens, n \in 1..MaxYearDigits}
            \cup {Heading(l, t, Year2025) : l \in 1..2, t \in MonthTokens}
  IN  {<<h>> : h \in hs} \cup {<<OtherLine, h>> : h \in hs}
      \cup {<<h, OtherLine>> : h \in hs}

\* two headings
TwoHeadingDocs ==
  LET hs == {Heading(l, t, y) : l \in 1..2, t \in {Februar, Januar, January},
                                y \in {YearToken(4), Year2025}}
  IN  {<<h1, h2>> : h1 \in hs, h2 \in hs}

ArchiveEntries ==
  {Entry(Januar, YearToken(4)), Entry(November, Year2025),
   Entry(Oktober, Year2025), Entry(January, YearToken(4)), OtherLine}

\* lines before the marker, the marker or none, the entries, a second section
ArchiveDocs ==
  {pre \o mark \o es \o second :
     pre \in {<<>>, <<Entry(Mai, Year2025)>>, <<Heading(1, Februar, YearToken(4))>>},
     mark \in {<<>>, <<Marker>>},
     es \in SeqsUpTo(ArchiveEntries, MaxEntries),
     second \in {<<>>, <<Marker, Entry(Mai, YearToken(4))>>}}

Docs == HeadingDocs \cup TwoHeadingDocs \cup ArchiveDocs

ParseInit ==
  /\ pc = "parse"
  /\ body \in Docs
  /\ pageText = Text(body)
  /\ clock = LastClock
  /\ expired = FALSE
  /\ session = "open"
  /\ remaining = {}
  /\ cur = "mobilfunk"
  /\ results = <<>>
  /\ now = NoClock
  /\ info = NilInfo
  /\ archiveInfo = NilInfo
  /\ clickJS = NoClick
  /\ i = 0
  /\ target = NoText
  /\ win = FreshWindow
  /\ toCreate = <<>>
  /\ reading = <<>>
  /\ clicked = {}
  /\ log = <<>>
  /\ ops = <<>>
  /\ cfg = DefaultCfg
  /\ m = NoMessage

\* line 562
ParseInvoiceInfo ==
  /\ pc = "parse"
  /\ pc' = "archive"
  /\ info' = parseInvoiceInfo(pageText)
  /\ UNCHANGED <<clock, expired, session, remaining, cur, results, pageText,
                 now, archiveInfo, clickJS, i, pageVars, log, ops>>
  /\ UNCHANGED <<cfg, m>>

\* line 576
ParseArchiveFirstEntry ==
  /\ pc = "archive"
  /\ pc' = "parsed"
  /\ archiveInfo' = parseArchiveFirstEntry(pageText)
  /\ UNCHANGED <<clock, expired, session, remaining, cur, results, pageText,
                 now, info, clickJS, i, pageVars, log, ops>>
  /\ UNCHANGED <<cfg, m>>

ParseNext == ParseInvoiceInfo \/ ParseArchiveFirstEntry

ParseSpec == ParseInit /\ [][ParseNext]_vars

----------------------------------------------------------------------------
(***************************************************************************)
(* The end of main on its own: any list of invoices the loop can leave in  *)
(* results, any SMTP port and subject the configuration file can hold.     *)
(***************************************************************************)
\* the list handed to sendEmail has at most this many invoices
MaxInvoices == 2

\* values of smtp.port in the configuration file
Ports ==
  {<<>>, <<"4", "6", "5">>, <<"a", "b", "c">>, <<"4", "a", "5">>,
   <<"+", "2", "5">>, <<" ", "4", "6", "5">>}

Configs == {Config(port, subject) : port \in Ports, subject \in {<<>>, Rechnung}}

\* Documents as downloadInvoice returns them, with and without PDF bytes
MailInvoices ==
  {Document(InvoiceInfo(Format02d(k), FormatInt(LastClock.year), monthNames[k]),
            contractTypes[c], SubSeq(PDFMagic, 1, n)) :
     k \in 1..2, c \in DOMAIN contractTypes, n \in 0..MaxBlobLen}

MailInit ==
  /\ pc = "range"
  /\ clock = LastClock
  /\ expired = FALSE
  /\ session = "open"
  /\ remaining = {}
  /\ cur = "none"
  /\ results \in SeqsUpTo(MailInvoices, MaxInvoices)
  /\ pageText = NoText
  /\ now = NoClock
  /\ info = NilInfo
  /\ archiveInfo = NilInfo
  /\ clickJS = NoClick
  /\ i = 0
  /\ body = NoText
  /\ target = NoText
  /\ win = FreshWindow
  /\ toCreate = <<>>
  /\ reading = <<>>
  /\ clicked = {}
  /\ log = <<>>
  /\ ops = <<>>
  /\ cfg \in Configs
  /\ m = NoMessage

MailNext == Send

MailSpec == MailInit /\ [][MailNext]_vars

----------------------------------------------------------------------------
(***************************************************************************)
(* Vocabulary of the properties.                                           *)
(***************************************************************************)
RangeOf(q) == {q[k] : k \in DOMAIN q}

\* how often main has called downloadInvoice for the category c
Calls(c) == Cardinality({k \in DOMAIN ops : ops[k] = Op("downloadInvoice", c, NoClick)})

\* how often downloadInvoice has called capturePDF(ctx, t) for the category c
Captures(c, t) == Cardinality({k \in DOMAIN ops : ops[k] = Op("capturePDF", c, t)})

\* the entries a step adds to a sequence that only grows
Added(old, new) == {new[k] : k \in DOMAIN new \ DOMAIN old}

\* the period inf is the calendar month and year of the clock value t
PeriodIsNow(inf, t) ==
  /\ inf.ok
  /\ DecVal(inf.Month) = t.month
  /\ DecVal(inf.Year) = t.year

LoginSucceeded == Line("Looking for invoices", "none") \in RangeOf(log)

InCapture == pc \in {"install", "trigger", "settle", "harvest"}

AfterParse == pc \in {"archive", "install", "trigger", "settle", "harvest"}

----------------------------------------------------------------------------
(***************************************************************************)
(* C1  Archive fallback.  Whenever the primary path of a category yields   *)
(* no Document (the extractor found no current period, or the primary      *)
(* capture failed), the next step of downloadInvoice runs                  *)
(* parseArchiveFirstEntry on the page text read before the primary         *)
(* attempt; if that yields a period, exactly one capture with the archive  *)
(* trigger is started, and if it succeeds the category returns a Document  *)
(* carrying the archive period.                                            *)
(***************************************************************************)
C1_Inv ==
  /\ \A c \in DOMAIN contractTypes : Captures(c, clickFirstArchiveEntry) <= 1
  /\ (InCapture /\ clickJS = clickFirstArchiveEntry) =>
       /\ archiveInfo.ok
       /\ archiveInfo = parseArchiveFirstEntry(TextOf(pageText))
       /\ Captures(cur, clickFirstArchiveEntry) = 1

C1_Step ==
  \* the text is read once per category and then kept
  /\ (cur # "none" /\ cur' # "none" /\ pc # "readText") => pageText' = pageText
  \* no current period: the resolver is next
  /\ (pc = "parse" /\ pc' \notin {"parse", "install"}) => pc' = "archive"
  \* the primary capture failed: the resolver is next
  /\ (pc = "harvest" /\ pc' # "harvest" /\ clickJS = clickCurrentInvoice
        /\ results' = results) => pc' = "archive"
  \* the resolver works on the text read before the primary attempt
  /\ (pc = "archive" /\ pc' # "archive") =>
       LET a == parseArchiveFirstEntry(TextOf(pageText))
       IN  IF a.ok
           THEN /\ pc' = "install"
                /\ clickJS' = clickFirstArchiveEntry
                /\ archiveInfo' = a
                /\ ops' = Append(ops, Op("capturePDF", cur, clickFirstArchiveEntry))
           ELSE /\ pc' = "range"
                /\ results' = results
                /\ ops' = ops
  \* a successful archive capture returns a Document with the archive period
  /\ (pc = "harvest" /\ pc' # "harvest" /\ clickJS = clickFirstArchiveEntry
        /\ ~Harvested(Captured).err) =>
       /\ Len(results') = Len(results) + 1
       /\ LET d == results'[Len(results')]
          IN  /\ d.Month = archiveInfo.Month
              /\ d.Year = archiveInfo.Year
              /\ d.MonthName = archiveInfo.MonthName
              /\ d.Type = contractTypes[cur]

C1_ArchiveFallback == []C1_Inv /\ [][C1_Step]_vars

\* a category whose primary capture failed has returned the archive's Document
C1_Witness ==
  \E c \in DOMAIN contractTypes :
    /\ Line("current invoice download failed, trying archive...", c) \in RangeOf(log)
    /\ \E k \in DOMAIN results :
         /\ results[k].Type = contractTypes[c]
         /\ results[k].MonthName = Januar

(***************************************************************************)
(* C2  A primary capture (capturePDF with clickCurrentInvoice) is          *)
(* attempted for a category if and only if parseInvoiceInfo on the page    *)
(* text returned a period whose month and year are the calendar month and  *)
(* year read at line 557; otherwise the primary trigger is never invoked.  *)
(***************************************************************************)
C2_PrimaryIffCurrent ==
  cur # "none" =>
    /\ ~AfterParse =>
         /\ Captures(cur, clickCurrentInvoice) = 0
         /\ clickCurrentInvoice \notin clicked
    /\ AfterParse =>
         /\ Captures(cur, clickCurrentInvoice) = 1
              <=> PeriodIsNow(parseInvoiceInfo(TextOf(pageText)), now)
         /\ clickCurrentInvoice \in clicked
              => PeriodIsNow(parseInvoiceInfo(TextOf(pageText)), now)
         /\ Captures(cur, clickCurrentInvoice) <= 1

\* the primary trigger has been clicked for a current period
C2_Witness ==
  /\ pc = "settle"
  /\ clickJS = clickCurrentInvoice
  /\ clickCurrentInvoice \in clicked
  /\ PeriodIsNow(info, now)

(***************************************************************************)
(* C3  Authentication failure is fatal to the entire run: once login has   *)
(* returned an error the process has exited, no category was attempted     *)
(* (no downloadInvoice call, no capture) and the mail collaborator was     *)
(* not invoked.                                                            *)
(***************************************************************************)
LoginFailed == \E l \in RangeOf(log) : l.msg \in {"Login failed", "Login failed: context deadline exceeded"}

C3_LoginFailureFatal ==
  LoginFailed =>
    /\ pc = "exit1"
    /\ cur = "none"
    /\ results = <<>>
    /\ \A o \in RangeOf(ops) : o.op \notin {"downloadInvoice", "capturePDF", "sendEmail"}

\* the run has ended on a failed login
C3_Witness == pc = "exit1" /\ LoginFailed

(***************************************************************************)
(* C4  Category failures are isolated: after a successful login the run    *)
(* never aborts; a category that ends without a Document leaves the        *)
(* collected Documents and the categories still to come untouched; and at  *)
(* the end every category of contractTypes has been attempted.             *)
(***************************************************************************)
C4_Inv ==
  /\ LoginSucceeded => pc # "exit1"
  /\ pc = "exit0" => \A c \in DOMAIN contractTypes : Calls(c) = 1

C4_Step ==
  \* Documents already collected stay as they are
  /\ \A k \in DOMAIN results : k \in DOMAIN results' /\ results'[k] = results[k]
  \* a category that fails inside downloadInvoice only returns to the loop
  /\ (cur # "none" /\ cur' = "none" /\ Len(results') = Len(results)) =>
       /\ pc' = "range"
       /\ remaining' = remaining
       /\ session' = "open"
  \* a category whose first navigation fails only leaves the loop's key set
  /\ (pc = "range" /\ pc' = "range" /\ remaining' # remaining) =>
       /\ results' = results
       /\ \E c \in remaining : remaining' = remaining \ {c}
       /\ session' = "open"

C4_FailuresIsolated == []C4_Inv /\ [][C4_Step]_vars

\* a Document was collected, a later category failed, the run ended normally
C4_Witness ==
  /\ pc = "exit0"
  /\ Len(results) = 1
  /\ \E j, k \in DOMAIN log :
       /\ j < k
       /\ log[j].msg \in {"Downloading", "Downloading from archive"}
       /\ log[j].cat # log[k].cat
       /\ results[1].Type = contractTypes[log[j].cat]
       /\ log[k].msg \in {"no archive entry found", "archive download failed!"}


(***************************************************************************)
(* C5  Exactly one outcome per category per run: main calls                *)
(* downloadInvoice at most once per category (exactly once by the normal   *)
(* end), the result list holds at most one Document per category, a        *)
(* Document is appended only by the step that ends a successful capture,   *)
(* and every Document has Type, Filename, Month, Year and MonthName set    *)
(* together with the PDFData that capture returned.                        *)
(***************************************************************************)
Filled(d) ==
  /\ d.ok
  /\ \E c \in DOMAIN contractTypes : d.Type = contractTypes[c] /\ Calls(c) = 1
  /\ d.Filename # <<>>
  /\ d.Month # <<>>
  /\ d.Year # <<>>
  /\ d.MonthName # <<>>

C5_Inv ==
  /\ \A c \in DOMAIN contractTypes : Calls(c) <= 1
  /\ pc = "exit0" => \A c \in DOMAIN contractTypes : Calls(c) = 1
  /\ \A j, k \in DOMAIN results : j # k => results[j].Type # results[k].Type
  /\ \A k \in DOMAIN results : Filled(results[k])

C5_Step ==
  results' # results =>
    /\ pc = "harvest"
    /\ pc' = "range"
    /\ ~Harvested(Captured).err
    /\ Len(results') = Len(results) + 1
    /\ SubSeq(results', 1, Len(results)) = results
    /\ results'[Len(results')].PDFData = Harvested(Captured).data
    /\ results'[Len(results')].Type = contractTypes[cur]

C5_OneOutcomePerCategory == []C5_Inv /\ [][C5_Step]_vars

\* both categories have ended with a Document
C5_Witness == pc = "exit0" /\ Len(results) = 2

(***************************************************************************)
(* C6  A Document is never created with an empty payload: PDFData of       *)
(* every Document in the result list is a non-empty byte sequence.         *)
(***************************************************************************)
C6_NonEmptyPayload ==
  \A k \in DOMAIN results : Len(results[k].PDFData) > 0

(***************************************************************************)
(* C7  sendEmail is invoked only when the list of captured Documents is    *)
(* non-empty; with zero Documents the run logs "No invoices found" and     *)
(* ends normally, without sending and without an error.                    *)
(***************************************************************************)
C7_SendOnlyNonEmpty ==
  /\ Op("sendEmail", "none", NoClick) \in RangeOf(ops) => Len(results) > 0
  /\ (pc = "exit0" /\ Len(results) = 0) =>
       /\ log[Len(log)] = Line("No invoices found", "none")
       /\ \A l \in RangeOf(log) :
            l.msg \notin {"Sending email...", "Email failed", "Done"}
  /\ (pc = "exit0" /\ Len(results) > 0) =>
       /\ Op("sendEmail", "none", NoClick) \in RangeOf(ops)
       /\ Line("No invoices found", "none") \notin RangeOf(log)

\* a run that logged in, captured nothing and ended normally
C7_Witness == pc = "exit0" /\ Len(results) = 0 /\ LoginSucceeded

(***************************************************************************)
(* C8  Guaranteed teardown: once createBrowserContext has created the      *)
(* browser session, its teardown function cancel has run by the time the   *)
(* process has exited, on every exit path, the failed login included.      *)
(***************************************************************************)
C8_TeardownOnEveryExit ==
  (pc \in {"exit0", "exit1"}
     /\ Op("createBrowserContext", "none", NoClick) \in RangeOf(ops)) =>
    /\ session = "closed"
    /\ Op("cancel", "none", NoClick) \in RangeOf(ops)

(***************************************************************************)
(* C9  Expiry of the run deadline aborts the run and is surfaced as a      *)
(* distinct timeout failure: once the deadline has expired the program     *)
(* starts no further category work and no notification, and what it        *)
(* reports is neither the authentication failure nor the not-found or      *)
(* capture-failed outcome of a category.                                   *)
(***************************************************************************)
C9_Step ==
  expired =>
    /\ \A o \in Added(ops, ops') :
         o.op \notin {"downloadInvoice", "capturePDF", "sendEmail"}
    /\ \A l \in Added(log, log') :
         l.msg \notin {"Login failed", "Searching", "Downloading",
                       "Downloading from archive",
                       "current invoice download failed, trying archive...",
                       "no archive entry found", "archive download failed!",
                       "Sending email...", "Email failed", "Done",
                       "No invoices found"}

C9_DeadlineAbortsDistinctly == [][C9_Step]_vars

(***************************************************************************)
(* C10  When the page text has neither a current-period match nor the      *)
(* archive marker, the category ends as not-found and no capture attempt   *)
(* is made: capturePDF is not called, the hook is not installed and no     *)
(* download trigger is clicked for that category.                          *)
(***************************************************************************)
NoMatchNoMarker ==
  /\ ~PeriodIsNow(parseInvoiceInfo(TextOf(pageText)), now)
  /\ ~Contains(TextOf(pageText), Rechnungsarchiv)

NoCaptureYet ==
  /\ Captures(cur, clickCurrentInvoice) = 0
  /\ Captures(cur, clickFirstArchiveEntry) = 0
  /\ win = FreshWindow
  /\ clicked = {}
  /\ toCreate = <<>>
  /\ reading = <<>>

C10_Inv ==
  (cur # "none" /\ AfterParse /\ NoMatchNoMarker) =>
    /\ pc = "archive"
    /\ NoCaptureYet

C10_Step ==
  (pc = "archive" /\ pc' # "archive" /\ NoMatchNoMarker) =>
    /\ pc' = "range"
    /\ results' = results
    /\ log' = Append(log, Line("no archive entry found", cur))
    /\ ops' = ops
    /\ win' = win
    /\ clicked' = clicked

C10_NotFoundWithoutCapture == []C10_Inv /\ [][C10_Step]_vars

\* a category whose page rendered a text without heading and without marker
\* has ended as not-found, its document untouched by any capture
C10_Witness ==
  /\ pc = "range"
  /\ Len(log) > 0
  /\ log[Len(log)].msg = "no archive entry found"
  /\ body = target
  /\ TextOf(body) = TxtNone
  /\ win = FreshWindow
  /\ clicked = {}
  /\ Captures(log[Len(log)].cat, clickCurrentInvoice) = 0
  /\ Captures(log[Len(log)].cat, clickFirstArchiveEntry) = 0

----------------------------------------------------------------------------
(***************************************************************************)
(* C11  Capture-hook installation is idempotent.  After any number of      *)
(* install phases in one document window._origCreateObjectURL is the       *)
(* page's native URL.createObjectURL, never a wrapper, so the installed    *)
(* wrapper calls through to the native primitive, once per blob; and a PDF *)
(* blob created by a trigger is one artifact on its way to the queue: it   *)
(* is neither duplicated nor lost by any step that follows its trigger in  *)
(* the same capture attempt.                                               *)
(***************************************************************************)
Triggers == {clickCurrentInvoice, clickFirstArchiveEntry}

\* the PDF artifacts of trigger t: blobs still to be created, blobs being
\* read, and data URLs in the queue
Artifacts(t) ==
  Cardinality({k \in DOMAIN toCreate :
                 toCreate[k].type = PDFType /\ toCreate[k].by = t})
  + Cardinality({k \in DOMAIN reading : reading[k].by = t})
  + Cardinality({k \in DOMAIN win.capturedPDFs : win.capturedPDFs[k].by = t})

C11_Inv ==
  /\ win.origCreateObjectURL \in {"undefined", "native"}
  /\ win.createObjectURL = "wrapper" => CallThrough(win) = "native"

C11_Step ==
  \A t \in Triggers :
    (/\ cur # "none"
     /\ cur' = cur
     /\ pc # "trigger"
     /\ ~(pc = "install" /\ t # clickJS))
    => Artifacts(t)' = Artifacts(t)

C11_InstallIdempotent == []C11_Inv /\ [][C11_Step]_vars

\* the hook was installed twice in one document, the second trigger made
\* one PDF blob, and exactly that one artifact is in the queue
C11_Witness ==
  /\ pc = "harvest"
  /\ clickJS = clickFirstArchiveEntry
  /\ clickCurrentInvoice \in clicked
  /\ win.origCreateObjectURL = "native"
  /\ toCreate = <<>>
  /\ reading = <<>>
  /\ Len(win.capturedPDFs) = 1
  /\ win.capturedPDFs[1].by = clickFirstArchiveEntry

----------------------------------------------------------------------------
(***************************************************************************)
(* C12  Harvest rule of capturePDF.  When capturePDF comes to its harvest  *)
(* after the settle wait: if the page-global queue is empty the call fails *)
(* (the primary path goes on to the archive, the archive path ends the     *)
(* category without a Document); otherwise the call returns the base64     *)
(* decoding of the first queued entry with the data-URL prefix removed,    *)
(* whatever entries follow it.                                             *)
(***************************************************************************)
\* window._capturedPDFs as it is in the page
PageQueue == IF win.hasQueue THEN win.capturedPDFs ELSE <<>>

FirstDecoded(q) == DecodeString(TrimPrefix(q[1].url, DataURLPrefix))

\* the step is a return of capturePDF with an error
CaptureFails ==
  /\ results' = results
  /\ IF clickJS = clickCurrentInvoice THEN pc' = "archive" ELSE pc' = "range"

\* the step is a return of capturePDF with the bytes b
CaptureReturns(b) ==
  /\ Len(results') = Len(results) + 1
  /\ results'[Len(results')].PDFData = b
  /\ pc' = "range"

C12_Step ==
  (pc = "harvest" /\ pc' # "harvest") =>
    IF Len(PageQueue) = 0 THEN CaptureFails
    ELSE IF FirstDecoded(PageQueue).err THEN CaptureFails
    ELSE CaptureReturns(FirstDecoded(PageQueue).data)

C12_HarvestRule == [][C12_Step]_vars

\* the same rule for a harvest whose read of the queue is answered
C12_StepInTime == ~expired => C12_Step

C12_HarvestRuleInTime == [][C12_StepInTime]_vars

----------------------------------------------------------------------------
(***************************************************************************)
(* C13  No cross-attempt contamination.  Within one category, when the     *)
(* archive-fallback capture returns bytes, they are the bytes of an        *)
(* artifact made by the archive trigger, never of one made by the primary  *)
(* trigger, however the page's blob creation and FileReader callbacks      *)
(* interleave with install, trigger, settle and harvest.                   *)
(***************************************************************************)
C13_Step ==
  (/\ pc = "harvest"
   /\ clickJS = clickFirstArchiveEntry
   /\ Len(results') = Len(results) + 1)
  => /\ Len(PageQueue) > 0
     /\ PageQueue[1].by = clickFirstArchiveEntry

C13_NoCrossAttemptContamination == [][C13_Step]_vars

----------------------------------------------------------------------------
(***************************************************************************)
(* C14  For each of the twelve names of the month table and both label     *)
(* phrasings, "Aktuelle Rechnung <Monat> <Jahr>" and "Rechnungsdatum:      *)
(* <Tag>. <Monat> <Jahr>", parseInvoiceInfo returns a period whose Month   *)
(* is the two-digit numeral of that name, whose Year is the given          *)
(* four-digit year and whose MonthName is the given name.                  *)
(***************************************************************************)
\* the lines of the document that are invoice headings
HeadingsOf(doc) == {k \in DOMAIN doc : doc[k].kind = "heading"}

\* the place of a name in the calendar
MonthIndex(name) == CHOOSE k \in 1..Len(monthNames) : monthNames[k] = name

\* the period a heading spells out
PeriodOf(h) == InvoiceInfo(Format02d(MonthIndex(h.token)), h.year, h.token)

C14_AllMonthsAllLabels ==
  (pc # "parse" /\ Cardinality(HeadingsOf(body)) = 1) =>
    LET h == body[CHOOSE k \in HeadingsOf(body) : TRUE]
    IN  (h.token \in RangeOfNames /\ Len(h.year) = 4) => info = PeriodOf(h)

C14_Witness ==
  /\ pc = "parsed"
  /\ body = <<Heading(2, Maerz, Year2025)>>
  /\ info.ok
  /\ info.Month = <<"0", "3">>
  /\ info.Year = Year2025
  /\ info.MonthName = Maerz

----------------------------------------------------------------------------
(***************************************************************************)
(* C15  parseInvoiceInfo returns None when the month token of an invoice   *)
(* heading on the page is not one of the twelve table names, whatever      *)
(* other text precedes or follows that heading.                            *)
(***************************************************************************)
UnknownHeadings(doc) ==
  {k \in HeadingsOf(doc) : doc[k].token \notin RangeOfNames}

C15_UnknownMonthIsNone ==
  (pc # "parse" /\ UnknownHeadings(body) # {}) => info = NilInfo

\* C15 as amended: the same, for surrounding text that holds no heading
\* with a table month name
C15_UnknownMonthIsNoneAmended ==
  (/\ pc # "parse"
   /\ UnknownHeadings(body) # {}
   /\ UnknownHeadings(body) = HeadingsOf(body))
  => info = NilInfo

C15_Witness ==
  /\ pc = "parsed"
  /\ body = <<Heading(1, January, YearToken(4)), Heading(2, January, Year2025)>>
  /\ info = NilInfo

----------------------------------------------------------------------------
(***************************************************************************)
(* C16  parseInvoiceInfo is priority-ordered, not position-ordered.  When  *)
(* the text holds a valid candidate of the first pattern ("Rechnung        *)
(* <Monat> <Jahr>") and a valid candidate of the second ("Rechnungsdatum   *)
(* ... <Monat> <Jahr>"), the result is the first pattern's candidate, also *)
(* when the second pattern's candidate stands earlier in the text.         *)
(***************************************************************************)
\* the heading spells a table month and a four-digit year
ValidHeading(h) ==
  /\ h.kind = "heading"
  /\ h.token \in RangeOfNames
  /\ Len(h.year) = 4

\* the document is one valid heading of each phrasing, in either order
OneOfEach(doc) ==
  /\ Len(doc) = 2
  /\ ValidHeading(doc[1])
  /\ ValidHeading(doc[2])
  /\ doc[1].label # doc[2].label

C16_PriorityNotPosition ==
  (pc # "parse" /\ OneOfEach(body)) =>
    info = PeriodOf(IF body[1].label = 1 THEN body[1] ELSE body[2])

\* the second pattern's candidate comes first and names another period
C16_Witness ==
  /\ pc = "parsed"
  /\ body = <<Heading(2, Januar, Year2025), Heading(1, Februar, YearToken(4))>>
  /\ info = PeriodOf(body[2])
  /\ info # PeriodOf(body[1])

----------------------------------------------------------------------------
(***************************************************************************)
(* C17  A year token must be exactly four digits.  For a page with one     *)
(* invoice heading, parseInvoiceInfo yields a period only when the digit   *)
(* run after the month name is exactly four digits long; a shorter run is  *)
(* rejected, and the Year of a period is the run as written, never an      *)
(* expansion of it.                                                        *)
(***************************************************************************)
C17_YearExactlyFourDigits ==
  (pc # "parse" /\ Cardinality(HeadingsOf(body)) = 1) =>
    LET h == body[CHOOSE k \in HeadingsOf(body) : TRUE]
    IN  /\ info.ok => Len(h.year) = 4
        /\ info.ok => info.Year = h.year
        /\ Len(h.year) < 4 => info = NilInfo

----------------------------------------------------------------------------
(***************************************************************************)
(* C18  parseArchiveFirstEntry returns None whenever the marker            *)
(* "Rechnungsarchiv" does not occur in the text, even if the text holds a  *)
(* valid month name followed by a dd.mm.yyyy date; and when the marker     *)
(* occurs, the text before its first occurrence does not contribute: the   *)
(* result is a period of an entry after the marker, and it is the result   *)
(* for the text from the marker on.                                        *)
(***************************************************************************)
MarkersOf(doc) == {k \in DOMAIN doc : doc[k].kind = "marker"}

FirstMarker(doc) == CHOOSE k \in MarkersOf(doc) : \A j \in MarkersOf(doc) : k <= j

\* the entries with a table month in the lines from position a on
ValidEntriesFrom(doc, a) ==
  {k \in a..Len(doc) : doc[k].kind = "entry" /\ doc[k].token \in RangeOfNames}

C18_MarkerGatesTheArchive ==
  pc = "parsed" =>
    IF MarkersOf(body) = {} THEN archiveInfo = NilInfo
    ELSE /\ archiveInfo.ok =>
              \E k \in ValidEntriesFrom(body, FirstMarker(body)) :
                archiveInfo = PeriodOf(body[k])
         /\ archiveInfo =
              parseArchiveFirstEntry(Text(From(body, FirstMarker(body))))

\* two valid entries and no marker
C18_Witness ==
  /\ pc = "parsed"
  /\ body = <<Entry(Mai, Year2025), Entry(Januar, YearToken(4))>>
  /\ archiveInfo = NilInfo

----------------------------------------------------------------------------
(***************************************************************************)
(* C19  When several valid entries "<Monat> dd.mm.yyyy" follow the first   *)
(* occurrence of the archive marker, parseArchiveFirstEntry returns the    *)
(* first of them in document order (its month numeral, year and month      *)
(* name), never a later entry and never an entry of a later, repeated      *)
(* archive section.                                                        *)
(***************************************************************************)
C19_FirstEntryInDocumentOrder ==
  (/\ pc = "parsed"
   /\ MarkersOf(body) # {}
   /\ Cardinality(ValidEntriesFrom(body, FirstMarker(body))) >= 2)
  => LET vs    == ValidEntriesFrom(body, FirstMarker(body))
         first == CHOOSE k \in vs : \A j \in vs : k <= j
     IN  archiveInfo = PeriodOf(body[first])

\* November before Oktober, and a second archive section after them
C19_Witness ==
  /\ pc = "parsed"
  /\ body = <<Marker, Entry(November, Year2025), Entry(Oktober, Year2025),
              Marker, Entry(Mai, YearToken(4))>>
  /\ archiveInfo.ok
  /\ archiveInfo.Month = <<"1", "1">>
  /\ archiveInfo.Year = Year2025
  /\ archiveInfo.MonthName = November

----------------------------------------------------------------------------
(***************************************************************************)
(* C20  The archive resolver fails closed on the first occurrence.  If the *)
(* first "<token> dd.mm.yyyy" entry after the archive marker has a month   *)
(* token that is not in the month table, parseArchiveFirstEntry returns    *)
(* None; it does not go on to later entries, even when one is valid.       *)
(***************************************************************************)
\* the entry lines from position a on, whatever their month token
EntriesFrom(doc, a) == {k \in a..Len(doc) : doc[k].kind = "entry"}

C20_FailsClosedOnFirstEntry ==
  (/\ pc = "parsed"
   /\ MarkersOf(body) # {}
   /\ EntriesFrom(body, FirstMarker(body)) # {})
  => LET es    == EntriesFrom(body, FirstMarker(body))
         first == CHOOSE k \in es : \A j \in es : k <= j
     IN  body[first].token \notin RangeOfNames => archiveInfo = NilInfo

----------------------------------------------------------------------------
(***************************************************************************)
(* C21  The filename of every Document is a function of (period month,     *)
(* period year, category tag): it is "<MM>_<YYYY>_Rechnung_Vodafone_<Tag>  *)
(* .pdf" on the primary and on the archive path alike, so equal inputs     *)
(* give equal filenames, and two Documents of one run never have the same  *)
(* filename.                                                               *)
(***************************************************************************)
FilenameOf(month, year, tag) ==
  month \o <<"_">> \o year
  \o <<"_", "R", "e", "c", "h", "n", "u", "n", "g", "_",
        "V", "o", "d", "a", "f", "o", "n", "e", "_">>
  \o tag \o <<".", "p", "d", "f">>

C21_FilenameDeterministic ==
  \A k \in DOMAIN results :
    /\ Len(results[k].Month) = 2
    /\ results[k].Filename =
         FilenameOf(results[k].Month, results[k].Year, results[k].Type)
    /\ \A j \in DOMAIN results :
         j # k => results[j].Filename # results[k].Filename

\* one Document from the archive path and one from the primary path, of
\* different periods
C21_Witness ==
  /\ Len(results) = 2
  /\ results[1].Month = <<"0", "1">>
  /\ results[2].Month = <<"0", "2">>
  /\ results[1].Filename = FilenameOf(<<"0", "1">>, <<"2", "0", "2", "6">>, results[1].Type)

----------------------------------------------------------------------------
(***************************************************************************)
(* C22  For every list of invoices, buildMessage lists every invoice in    *)
(* the body as "- <Type>: <MonthName> <Year>", also the invoices without   *)
(* PDF bytes, and attaches exactly the invoices whose PDFData is not       *)
(* empty, in input order, each under its own Filename; an invoice with     *)
(* empty PDFData gets no attachment.                                       *)
(***************************************************************************)
BodyLineOf(inv) ==
  <<"-", " ">> \o inv.Type \o <<":", " ">> \o inv.MonthName \o <<" ">>
  \o inv.Year \o <<"\n">>

WithData(invoices) == {k \in DOMAIN invoices : Len(invoices[k].PDFData) > 0}

\* the j-th smallest element of a set of numbers
Nth(S, j) == CHOOSE k \in S : Cardinality({x \in S : x <= k}) = j

C22_BodyAndAttachments ==
  (pc = "exit0" /\ m.built) =>
    /\ HasPrefixAt(m.body, 1, DokumenteAnbei)
    /\ \A k \in DOMAIN results : Contains(m.body, BodyLineOf(results[k]))
    /\ Len(m.attachments) = Cardinality(WithData(results))
    /\ \A j \in DOMAIN m.attachments :
         /\ m.attachments[j].name = results[Nth(WithData(results), j)].Filename
         /\ m.attachments[j].data = results[Nth(WithData(results), j)].PDFData

\* an invoice without bytes before one with bytes: two lines, one attachment
C22_Witness ==
  /\ pc = "exit0"
  /\ m.built
  /\ Len(results) = 2
  /\ Len(results[1].PDFData) = 0
  /\ Len(results[2].PDFData) > 0
  /\ Len(m.attachments) = 1
  /\ m.attachments[1].name = results[2].Filename

----------------------------------------------------------------------------
(***************************************************************************)
(* C23  sendEmail with an SMTP port that is not a decimal integer, the     *)
(* empty string included, returns an error that says "invalid SMTP port",  *)
(* and does so before any message is built and before any connection to    *)
(* the SMTP host is attempted.                                             *)
(***************************************************************************)
\* an optional sign and then digits, at least one
IsDecimalInteger(s) ==
  \E k \in 0..1 :
    /\ Len(s) > k
    /\ k = 1 => s[1] \in {"+", "-"}
    /\ \A j \in (k + 1)..Len(s) : s[j] \in Digits

SendEmailCalled == Op("sendEmail", "none", NoClick) \in RangeOf(ops)

C23_InvalidPortFailsFirst ==
  (pc = "exit0" /\ SendEmailCalled /\ ~IsDecimalInteger(cfg.SMTP.Port)) =>
    /\ log[Len(log)] = Line("Email failed: invalid SMTP port", "none")
    /\ m = NoMessage
    /\ Op("DialAndSend", "none", NoClick) \notin RangeOf(ops)

C23_Witness ==
  /\ pc = "exit0"
  /\ SendEmailCalled
  /\ cfg.SMTP.Port = <<>>
  /\ log[Len(log)] = Line("Email failed: invalid SMTP port", "none")
  /\ m = NoMessage

----------------------------------------------------------------------------
(***************************************************************************)
(* C24  Period invariant.  Every period that parseInvoiceInfo or           *)
(* parseArchiveFirstEntry returns, for any input text, has a MonthName     *)
(* that is one of the twelve table names, a Month that is the two-digit    *)
(* numeral of exactly that name, and a Year of exactly four digits.        *)
(***************************************************************************)
WellFormedPeriod(p) ==
  /\ p.MonthName \in RangeOfNames
  /\ p.Month = Format02d(MonthIndex(p.MonthName))
  /\ Len(p.Year) = 4
  /\ \A k \in DOMAIN p.Year : p.Year[k] \in Digits

C24_PeriodInvariant ==
  /\ info.ok => WellFormedPeriod(info)
  /\ archiveInfo.ok => WellFormedPeriod(archiveInfo)

\* both parsers returned a period for one page
C24_Witness ==
  /\ pc = "parsed"
  /\ body = <<Heading(1, Februar, YearToken(4)), Marker, Entry(November, Year2025)>>
  /\ info.ok
  /\ archiveInfo.ok
  /\ info.MonthName = Februar
  /\ archiveInfo.Month = <<"1", "1">>

----------------------------------------------------------------------------
(***************************************************************************)
(* C25  The readiness poll of navigateToInvoicePage is bounded and         *)
(* fail-open.  After the click that opens the invoice view succeeded, the  *)
(* content check is evaluated at most 15 times; the poll returns success   *)
(* as soon as a check sees the expected content, and it returns success,   *)
(* not an error, also when none of the 15 checks sees it or the checks     *)
(* themselves fail: downloadInvoice goes on to read the page text.         *)
(***************************************************************************)
C25_Inv == pc = "poll" => i \in 0..(PollLimit - 1)

C25_Step ==
  (pc = "poll" /\ (pc' # pc \/ i' # i)) =>
    /\ pc' \in {"poll", "readText"}
    /\ cur' = cur
    /\ results' = results
    /\ hasContent => pc' = "readText"
    /\ pc' = "poll" => (i' = i + 1 /\ i' < PollLimit)
    /\ (~hasContent /\ i + 1 = PollLimit) => pc' = "readText"

C25_PollBoundedFailOpen == []C25_Inv /\ [][C25_Step]_vars

\* the poll gave up in time, with the page still showing the landing text
C25_Witness ==
  /\ pc = "readText"
  /\ ~expired
  /\ body = LandingText
  /\ cur # "none"

----------------------------------------------------------------------------
(***************************************************************************)
(* C26  A Document captured via the archive fallback always carries a      *)
(* non-current period: for every Document returned from the archive branch *)
(* of downloadInvoice, its (Month, Year) differs from the current calendar *)
(* month and year.                                                         *)
(***************************************************************************)
\* the step is the return of a Document from the archive branch
ArchiveDocumentReturned ==
  /\ pc = "harvest"
  /\ clickJS = clickFirstArchiveEntry
  /\ Len(results') = Len(results) + 1

C26_Step ==
  ArchiveDocumentReturned => ~PeriodIsNow(results'[Len(results')], now)

C26_ArchivePeriodNotCurrent == [][C26_Step]_vars

\* C26 as amended: the Document of the archive branch carries the period of
\* the first archive entry of the page text, current or not
C26_StepAmended ==
  ArchiveDocumentReturned =>
    LET d == results'[Len(results')]
        a == parseArchiveFirstEntry(TextOf(pageText))
    IN  /\ a.ok
        /\ d.Month = a.Month
        /\ d.Year = a.Year
        /\ d.MonthName = a.MonthName

C26_ArchivePeriodIsFirstEntry == [][C26_StepAmended]_vars

\* an archive Document of January 2026 returned in January 2026
C26_Witness ==
  /\ Len(results) = 1
  /\ results[1].Month = <<"0", "1">>
  /\ results[1].Year = <<"2", "0", "2", "6">>
  /\ clock = [month |-> 1, year |-> 2026]
  /\ \E k \in DOMAIN log : log[k].msg = "Downloading from archive"

----------------------------------------------------------------------------
(***************************************************************************)
(* C27  The page-global capture queue is read and cleared by the host once *)
(* per capture attempt: after the harvest step of capturePDF has read the  *)
(* queue, the queue in the page is empty; it does not keep the harvested   *)
(* entries until the next install phase.                                   *)
(***************************************************************************)
C27_Step ==
  (pc = "harvest" /\ pc' # "harvest" /\ ~expired) =>
    Len(IF win'.hasQueue THEN win'.capturedPDFs ELSE <<>>) = 0

C27_QueueClearedAtHarvest == [][C27_Step]_vars

----------------------------------------------------------------------------
(***************************************************************************)
(* C28  Every category attempt produces a progress line for its outcome:   *)
(* after the "Searching <category>" line, downloadInvoice logs at least    *)
(* one line that says what happened to that category (downloading, not     *)
(* found, capture failed) on every path, the path where the navigation to  *)
(* the invoice page fails included.                                        *)
(***************************************************************************)
\* the lines of the log about category c other than "Searching"
OutcomeLines(c) ==
  {k \in DOMAIN log : log[k].cat = c /\ log[k].msg # "Searching"}

C28_ProgressLinePerOutcome ==
  pc \in {"range", "exit0"} =>
    \A c \in DOMAIN contractTypes : Calls(c) >= 1 => OutcomeLines(c) # {}

----------------------------------------------------------------------------
(***************************************************************************)
(* C29  Categories are processed strictly one after another in a fixed     *)
(* order, Mobilfunk before Kabel as in the documented output, so for the   *)
(* same portal responses two runs hand the same ordered list of Documents  *)
(* to the mail collaborator: downloadInvoice is never called for Kabel     *)
(* before it was called for Mobilfunk, and in the result list a Mobilfunk  *)
(* Document never follows a Kabel Document.                                *)
(***************************************************************************)
C29_FixedCategoryOrder ==
  /\ Calls("kabel") >= 1 => Calls("mobilfunk") >= 1
  /\ \A j, k \in DOMAIN results :
       (results[j].Type = Kabel /\ results[k].Type = Mobilfunk) => k < j

----------------------------------------------------------------------------
(***************************************************************************)
(* C30  The two month tables are mutually consistent: months has exactly   *)
(* twelve entries, and for every k in 1..12 months[monthNames[k]] is the   *)
(* two-digit numeral of k; so the numeral computed from the clock for the  *)
(* current month equals the numeral the parsers return for that month's    *)
(* name.                                                                   *)
(***************************************************************************)
C30_TablesConsistent ==
  /\ Cardinality(months) = 12
  /\ Cardinality({e[1] : e \in months}) = 12
  /\ Len(monthNames) = 12
  /\ \A k \in 1..12 :
       /\ monthsOk(monthNames[k])
       /\ monthsGet(monthNames[k]) = Format02d(k)
       /\ (info.ok /\ info.MonthName = monthNames[k]) => info.Month = Format02d(k)
       /\ (archiveInfo.ok /\ archiveInfo.MonthName = monthNames[k])
            => archiveInfo.Month = Format02d(k)

\* the parser returned the name of the clock's month, with the clock's numeral
C30_Witness ==
  /\ pc = "parsed"
  /\ info.ok
  /\ info.MonthName = monthNames[clock.month]
  /\ info.Month = Format02d(clock.month)

=============================================================================
